---- MODULE Spec2Model ----
(***************************************************************************)
(* A model of ts-minifier: the command line front end (src/cli.ts), the    *)
(* CompressionLevel enum (src/types.ts) and TypeScriptCompressor           *)
(* (src/compressor.ts).  Texts, paths and patterns are real strings; the   *)
(* library calls the compressor makes (path, glob, the scanner, parser and *)
(* printer of the TypeScript compiler API, SourceMapGenerator) are         *)
(* operators that compute what those calls return on the texts used here.  *)
(***************************************************************************)
EXTENDS Integers, Sequences, FiniteSets, TLC

\* Longest list of paths given after -i / passed as inputPaths.
MaxInputs == 2

\* JavaScript's undefined, kept apart from every string the program builds.
undefined == "<undefined>"

\* The value of an inherited (Object.prototype) property: a function object.
FunctionObject == "<function>"

-----------------------------------------------------------------------------
(* Strings *)

\* The element of a one-element set.  { e(x) : x \in {v} } computes v once,
\* however often e uses x.
The(S) == CHOOSE x \in S : TRUE

CharAt(s, i) == SubSeq(s, i, i)

StartsWith(s, p) == Len(s) >= Len(p) /\ SubSeq(s, 1, Len(p)) = p

EndsWith(s, p) == Len(s) >= Len(p) /\ SubSeq(s, Len(s) - Len(p) + 1, Len(s)) = p

\* Index of the first occurrence of the string p in s at or after from, 0 if none.
RECURSIVE IndexOf(_, _, _)
IndexOf(s, p, from) ==
  IF from + Len(p) - 1 > Len(s) THEN 0
  ELSE IF SubSeq(s, from, from + Len(p) - 1) = p THEN from
  ELSE IndexOf(s, p, from + 1)

\* String.prototype.includes / Jest's toContain on strings.
Contains(s, p) == IndexOf(s, p, 1) # 0

\* Index of the last occurrence of the character c in s at or before from, 0 if none.
RECURSIVE LastIndexOf(_, _, _)
LastIndexOf(s, c, from) ==
  IF from < 1 THEN 0
  ELSE IF CharAt(s, from) = c THEN from
  ELSE LastIndexOf(s, c, from - 1)

\* String.prototype.split on a one-character separator.
RECURSIVE Split(_, _)
Split(s, c) ==
  LET i == IndexOf(s, c, 1)
  IN  IF i = 0 THEN <<s>>
      ELSE <<SubSeq(s, 1, i - 1)>> \o Split(SubSeq(s, i + 1, Len(s)), c)

\* Array.prototype.join.
RECURSIVE Join(_, _)
Join(strs, sep) ==
  IF strs = <<>> THEN ""
  ELSE IF Len(strs) = 1 THEN strs[1]
  ELSE strs[1] \o sep \o Join(Tail(strs), sep)

\* Array.prototype.flat: the sequences of seqs, one after the other.
RECURSIVE Flatten(_)
Flatten(seqs) == IF seqs = <<>> THEN <<>> ELSE Head(seqs) \o Flatten(Tail(seqs))

Digits == <<"0", "1", "2", "3", "4", "5", "6", "7", "8", "9">>

\* The decimal text a template literal produces for a non-negative integer.
RECURSIVE Decimal(_)
Decimal(n) ==
  IF n < 10 THEN Digits[n + 1]
  ELSE Decimal(n \div 10) \o Digits[(n % 10) + 1]

\* JavaScript truthiness of a value that is a string or undefined.
Truthy(v) == v # undefined /\ v # ""

RECURSIVE SumLengths(_)
SumLengths(strs) ==
  IF strs = <<>> THEN 0 ELSE Len(Head(strs)) + SumLengths(Tail(strs))

-----------------------------------------------------------------------------
(* Paths (node's path module, POSIX flavour) *)

basename(p) == SubSeq(p, LastIndexOf(p, "/", Len(p)) + 1, Len(p))

extname(p) ==
  LET b == basename(p)
      i == LastIndexOf(b, ".", Len(b))
  IN  IF i <= 1 THEN "" ELSE SubSeq(b, i, Len(b))

join(a, b) == a \o "/" \o b

resolve(from, p) == IF StartsWith(p, "/") THEN p ELSE join(from, p)

-----------------------------------------------------------------------------
(* The file system the runs read *)

cwd == "/p"

HelloText == "const longVariableName = 'Hello World'; // comment"

DocText == "/** doc */\nfunction greet(name) { }\n// note\nconst alias = greet;\nalias.call;"

BadText == "const = ;"

Dir == [type |-> "dir", content |-> ""]

File(text) == [type |-> "file", content |-> text]

\* Every path that exists before a run; any other path makes statSync throw.
FileSystem ==
  ("/p/src" :> Dir) @@ ("/p/src/exclude.ts" :> File(DocText))
    @@ ("/p/src/include.ts" :> File(HelloText))
    @@ ("/p/src/notes.md" :> File("# notes"))
    @@ ("/p/lib" :> Dir) @@ ("/p/lib/blank.ts" :> File(""))
    @@ ("/p/lib/include.ts" :> File(BadText))
    @@ ("/p/empty" :> Dir)

\* The files of the tree in the order a directory walk lists them.
Listing ==
  << "/p/lib/blank.ts", "/p/lib/include.ts", "/p/src/exclude.ts",
     "/p/src/include.ts", "/p/src/notes.md" >>

\* Paths a user names on the command line, relative to cwd.
InputArgs == {"src", "lib", "empty", "src/exclude.ts", "lib/include.ts", "src/notes.md", "missing.ts"}

\* Values given to -l / --level.
LevelArgs == {"none", "minimal", "aggressive", "NONE", "AGGRESSIVE", "fast", "toString"}

FormatArgs == {"single", "multiple"}

\* excludePatterns of the configuration file: absent, or one pattern.
ExcludeChoices == {<<>>, << <<"**/exclude.ts">> >>}

RECURSIVE SeqsUpTo(_, _)
SeqsUpTo(S, n) ==
  IF n = 0 THEN {<<>>}
  ELSE LET shorter == SeqsUpTo(S, n - 1)
       IN  shorter \cup {Append(q, x) : q \in {r \in shorter : Len(r) = n - 1}, x \in S}

-----------------------------------------------------------------------------
(* glob and its ignore option (minimatch) *)

\* One path segment against one pattern segment: a literal, or * then a suffix.
SegMatch(seg, pat) ==
  IF StartsWith(pat, "*")
  THEN seg # "" /\ ~StartsWith(seg, ".") /\ EndsWith(seg, SubSeq(pat, 2, Len(pat)))
  ELSE seg = pat

RECURSIVE MatchSegs(_, _)
MatchSegs(ps, qs) ==
  IF qs = <<>> THEN ps = <<>>
  ELSE IF Head(qs) = "**"
       THEN MatchSegs(ps, Tail(qs)) \/ (ps # <<>> /\ MatchSegs(Tail(ps), qs))
       ELSE ps # <<>> /\ SegMatch(Head(ps), Head(qs)) /\ MatchSegs(Tail(ps), Tail(qs))

minimatch(p, pattern) == MatchSegs(Split(p, "/"), Split(pattern, "/"))

Ignored(p, ignore) == \E k \in 1..Len(ignore) : minimatch(p, ignore[k])

globSync(pattern, ignore) ==
  SelectSeq(Listing, LAMBDA f : minimatch(f, pattern) /\ ~Ignored(f, ignore))

-----------------------------------------------------------------------------
(* src/types.ts *)

CompressionLevel == [NONE |-> "none", MINIMAL |-> "minimal", AGGRESSIVE |-> "aggressive"]

\* Property names every object inherits from Object.prototype.
ObjectPrototypeKeys == {"toString", "constructor", "hasOwnProperty", "valueOf"}

\* key in CompressionLevel
InCompressionLevel(key) == key \in DOMAIN CompressionLevel \/ key \in ObjectPrototypeKeys

\* CompressionLevel[key]
LevelLookup(key) ==
  IF key \in DOMAIN CompressionLevel THEN CompressionLevel[key] ELSE FunctionObject

-----------------------------------------------------------------------------
(* The TypeScript compiler API: scanner *)

Letters ==
  {"a", "b", "c", "d", "e", "f", "g", "h", "i", "j", "k", "l", "m", "n", "o", "p", "q",
   "r", "s", "t", "u", "v", "w", "x", "y", "z", "A", "B", "C", "D", "E", "F", "G", "H",
   "I", "J", "K", "L", "M", "N", "O", "P", "Q", "R", "S", "T", "U", "V", "W", "X", "Y",
   "Z", "_", "$"}

IdChars == Letters \cup {"0", "1", "2", "3", "4", "5", "6", "7", "8", "9"}

Keywords == {"const", "function"}

\* Index of the last character of the word that starts at i.
RECURSIVE WordEnd(_, _)
WordEnd(text, i) ==
  IF i < Len(text) /\ CharAt(text, i + 1) \in IdChars THEN WordEnd(text, i + 1) ELSE i

\* Index of the last character of a token that runs to the first close at or
\* after from (to the end of the text when it is never closed).
ClosedAt(text, close, from) ==
  LET j == IndexOf(text, close, from)
  IN  IF j = 0 THEN Len(text) ELSE j + Len(close) - 1

Token(kind, text) == [kind |-> kind, text |-> text]

\* The token that starts at index i of text (i is not white space) and the
\* index of its last character.
TokenAt(text, i) ==
  LET c == CharAt(text, i)
      two == SubSeq(text, i, IF i < Len(text) THEN i + 1 ELSE i)
      nl == IndexOf(text, "\n", i)
  IN  IF two = "//"
      THEN [kind |-> "Comment", last |-> IF nl = 0 THEN Len(text) ELSE nl - 1]
      ELSE IF two = "/*"
      THEN [kind |-> IF SubSeq(text, i, IF i + 2 <= Len(text) THEN i + 2 ELSE i) = "/**"
                     THEN "JSDoc" ELSE "Comment",
            last |-> ClosedAt(text, "*/", i + 2)]
      ELSE IF c = "'"
      THEN [kind |-> "StringLiteral", last |-> ClosedAt(text, "'", i + 1)]
      ELSE IF c \in Letters
      THEN [kind |-> IF SubSeq(text, i, WordEnd(text, i)) \in Keywords
                     THEN "Keyword" ELSE "Identifier",
            last |-> WordEnd(text, i)]
      ELSE [kind |-> "Punct", last |-> i]

\* The tokens of text, comments included, white space dropped.
Scan(text) ==
  LET from[i \in 1..(Len(text) + 1)] ==
        IF i > Len(text) THEN <<>>
        ELSE IF CharAt(text, i) = " " \/ CharAt(text, i) = "\n" THEN from[i + 1]
        ELSE The({ <<Token(t.kind, SubSeq(text, i, t.last))>> \o from[t.last + 1] :
                   t \in {TokenAt(text, i)} })
  IN  from[1]

IsTrivia(tok) == tok.kind \in {"Comment", "JSDoc"}

\* The comments among raw[1..i-1] that no other token follows.
RECURSIVE LeadingAt(_, _)
LeadingAt(raw, i) ==
  IF i > 1 /\ IsTrivia(raw[i - 1]) THEN Append(LeadingAt(raw, i - 1), raw[i - 1]) ELSE <<>>

\* Each token of raw with the comments that lead it; the last token is the
\* end of file.
Attach(raw) ==
  LET eof == [kind |-> "EOF", text |-> ""]
      all == Append(raw, eof)
      kept == SelectSeq([i \in 1..Len(all) |-> i], LAMBDA i : ~IsTrivia(all[i]))
  IN  [k \in 1..Len(kept) |->
         [kind |-> all[kept[k]].kind, text |-> all[kept[k]].text,
          leading |-> LeadingAt(raw, kept[k])]]

\* The tokens the parser reads.
Tokens(text) == The({ Attach(raw) : raw \in {Scan(text)} })

-----------------------------------------------------------------------------
(* The TypeScript compiler API: parser.  A node carries its kind, its text  *)
(* (identifiers and literals), the kind of its parent and the property of   *)
(* the parent that holds it (setParentNodes is true), its children in the   *)
(* order visitEachChild visits them, and the comments before it.            *)

Node(kind, text, parent, slot, children) ==
  [kind |-> kind, text |-> text, parent |-> parent, slot |-> slot,
   children |-> children, comments |-> <<>>, synthesized |-> FALSE]

Parsed(node, next, diags) == [node |-> node, next |-> next, diags |-> diags]

IsTok(toks, i, kind, text) == toks[i].kind = kind /\ toks[i].text = text

\* An identifier, or the empty identifier the parser makes up where one is missing.
ParseIdentifier(toks, i, parent, slot) ==
  IF toks[i].kind = "Identifier"
  THEN Parsed(Node("Identifier", toks[i].text, parent, slot, <<>>), i + 1, 0)
  ELSE Parsed(Node("Identifier", "", parent, slot, <<>>), i, 1)

\* A string literal, a name, or a property access name.name.
ParseExpression(toks, i, parent, slot) ==
  IF toks[i].kind = "StringLiteral"
  THEN Parsed(Node("StringLiteral", toks[i].text, parent, slot, <<>>), i + 1, 0)
  ELSE IF toks[i].kind = "Identifier" /\ IsTok(toks, i + 1, "Punct", ".")
  THEN LET object == ParseIdentifier(toks, i, "PropertyAccessExpression", "expression")
           name == ParseIdentifier(toks, i + 2, "PropertyAccessExpression", "name")
       IN  Parsed(Node("PropertyAccessExpression", "", parent, slot, <<object.node, name.node>>),
                  name.next, name.diags)
  ELSE ParseIdentifier(toks, i, parent, slot)

\* Skips the token c when it is there, reports it missing when it is not.
Expect(toks, i, c) ==
  IF IsTok(toks, i, "Punct", c) THEN [next |-> i + 1, diags |-> 0] ELSE [next |-> i, diags |-> 1]

\* const name [= initializer] ;
ParseVariableStatement(toks, i) ==
  LET name == ParseIdentifier(toks, i + 1, "VariableDeclaration", "name")
      hasInit == IsTok(toks, name.next, "Punct", "=")
      init == ParseExpression(toks, name.next + 1, "VariableDeclaration", "initializer")
      afterDecl == IF hasInit THEN init.next ELSE name.next
      semi == Expect(toks, afterDecl, ";")
      decl == Node("VariableDeclaration", "", "VariableDeclarationList", "declarations",
                   IF hasInit THEN <<name.node, init.node>> ELSE <<name.node>>)
      list == Node("VariableDeclarationList", "const", "VariableStatement", "declarationList", <<decl>>)
  IN  Parsed(Node("VariableStatement", "", "SourceFile", "statements", <<list>>),
             semi.next, name.diags + (IF hasInit THEN init.diags ELSE 0) + semi.diags)

\* function name ( [parameter] ) { }
ParseFunctionDeclaration(toks, i) ==
  LET name == ParseIdentifier(toks, i + 1, "FunctionDeclaration", "name")
      open == Expect(toks, name.next, "(")
      hasParam == toks[open.next].kind = "Identifier"
      param == ParseIdentifier(toks, open.next, "Parameter", "name")
      close == Expect(toks, IF hasParam THEN param.next ELSE open.next, ")")
      lbrace == Expect(toks, close.next, "{")
      rbrace == Expect(toks, lbrace.next, "}")
      parameters == IF hasParam
                    THEN <<Node("Parameter", "", "FunctionDeclaration", "parameters", <<param.node>>)>>
                    ELSE <<>>
      body == Node("Block", "", "FunctionDeclaration", "body", <<>>)
  IN  Parsed(Node("FunctionDeclaration", "", "SourceFile", "statements",
                  <<name.node>> \o parameters \o <<body>>),
             rbrace.next, name.diags + open.diags + close.diags + lbrace.diags + rbrace.diags)

\* expression ;
ParseExpressionStatement(toks, i) ==
  LET expr == ParseExpression(toks, i, "ExpressionStatement", "expression")
      semi == Expect(toks, expr.next, ";")
  IN  Parsed(Node("ExpressionStatement", "", "SourceFile", "statements", <<expr.node>>),
             semi.next, expr.diags + semi.diags)

ParseStatement(toks, i) ==
  IF IsTok(toks, i, "Keyword", "const") THEN ParseVariableStatement(toks, i)
  ELSE IF IsTok(toks, i, "Keyword", "function") THEN ParseFunctionDeclaration(toks, i)
  ELSE ParseExpressionStatement(toks, i)

\* The statements of the token list.  A token that starts no statement is
\* reported and skipped; the parser never throws.
ParseStatements(toks) ==
  LET from[i \in 1..Len(toks)] ==
        IF toks[i].kind = "EOF" THEN [statements |-> <<>>, diags |-> 0]
        ELSE IF toks[i].kind = "Punct"
        THEN The({ [statements |-> rest.statements, diags |-> rest.diags + 1] :
                   rest \in {from[i + 1]} })
        ELSE The({ The({ [statements |->
                            <<[stmt.node EXCEPT !.comments = toks[i].leading]>>
                              \o rest.statements,
                          diags |-> stmt.diags + rest.diags] :
                         rest \in {from[stmt.next]} }) :
                   stmt \in {ParseStatement(toks, i)} })
  IN  from[1]

ParseSourceFile(fileName, toks) ==
  The({ [kind |-> "SourceFile", text |-> fileName, parent |-> "", slot |-> "",
         children |-> body.statements, comments |-> toks[Len(toks)].leading,
         synthesized |-> FALSE, parseDiagnostics |-> body.diags] :
        body \in {ParseStatements(toks)} })

\* ts.createSourceFile(fileName, sourceText, target, setParentNodes = true)
createSourceFile(fileName, sourceText) ==
  The({ ParseSourceFile(fileName, toks) : toks \in {Tokens(sourceText)} })

-----------------------------------------------------------------------------
(* The TypeScript compiler API: node factory, visitor and printer *)

\* ts.factory.createIdentifier: a new node, outside the parsed tree.
createIdentifier(text) ==
  [kind |-> "Identifier", text |-> text, parent |-> "", slot |-> "",
   children |-> <<>>, comments |-> <<>>, synthesized |-> TRUE]

\* ts.visitEachChild: the node with each child replaced by the visitor's
\* result for it; visited[k] is the result for the k-th child.
visitEachChild(node, visited) == [node EXCEPT !.children = visited]

JSDocKinds == {"JSDoc", "JSDocText", "JSDocNamepathType", "JSDocTypeLiteral", "JSDocSignature", "JSDocTag"}

isJSDocCommentContainingNode(node) == node.kind \in JSDocKinds

RECURSIVE PrintNode(_)
PrintNode(node) ==
  LET c == node.children
  IN  CASE node.kind = "VariableStatement" -> PrintNode(c[1]) \o ";"
        [] node.kind = "VariableDeclarationList" -> node.text \o " " \o PrintNode(c[1])
        [] node.kind = "VariableDeclaration" ->
             PrintNode(c[1]) \o (IF Len(c) > 1 THEN " = " \o PrintNode(c[2]) ELSE "")
        [] node.kind = "FunctionDeclaration" ->
             "function " \o PrintNode(c[1]) \o "("
               \o (IF Len(c) = 3 THEN PrintNode(c[2]) ELSE "") \o ") { }"
        [] node.kind = "Parameter" -> PrintNode(c[1])
        [] node.kind = "ExpressionStatement" -> PrintNode(c[1]) \o ";"
        [] node.kind = "PropertyAccessExpression" -> PrintNode(c[1]) \o "." \o PrintNode(c[2])
        [] OTHER -> node.text

\* The comments of a node as the printer writes them, one to a line; none of
\* them, ordinary or documentation, when removeComments is set.
RECURSIVE PrintComments(_, _)
PrintComments(comments, removeComments) ==
  IF removeComments \/ comments = <<>> THEN ""
  ELSE Head(comments).text \o "\n" \o PrintComments(Tail(comments), removeComments)

RECURSIVE PrintStatements(_, _)
PrintStatements(statements, removeComments) ==
  IF statements = <<>> THEN ""
  ELSE PrintComments(Head(statements).comments, removeComments)
         \o PrintNode(Head(statements)) \o "\n"
         \o PrintStatements(Tail(statements), removeComments)

\* ts.createPrinter({removeComments}).printFile(sourceFile)
printFile(sourceFile, removeComments) ==
  PrintStatements(sourceFile.children, removeComments)
    \o PrintComments(sourceFile.comments, removeComments)

-----------------------------------------------------------------------------
(* SourceMapGenerator of the source-map package *)

\* new SourceMapGenerator({file})
NewSourceMapGenerator(file) == [file |-> file, mappings |-> <<>>]

\* SourceMapGenerator.prototype.toString: the JSON text of the map, one
\* segment for every mapping that was added.
SourceMapToString(generator) ==
  "{\"version\":3,\"sources\":[],\"names\":[],\"mappings\":\""
    \o Join([k \in 1..Len(generator.mappings) |-> "AAAA"], ",")
    \o "\",\"file\":\"" \o generator.file \o "\"}"

-----------------------------------------------------------------------------
(* State *)

VARIABLES
  pc,               \* position of the run
  opts,             \* parsed command line: level, format, sourceMaps, input
  config,           \* configuration file: excludePatterns, generateSourceMaps
  options,          \* the CompressOptions main() builds
  inputPaths,       \* resolvedInputPaths handed to compressFiles
  inputFiles,       \* what resolveInputFiles returned
  transformedFiles, \* results of compressFile, in the order they were produced
  trees,            \* per compressed file: parsed tree, rewritten tree, map entries
  disk,             \* files written under cwd/dist
  result            \* the CompressResult

vars == <<pc, opts, config, options, inputPaths, inputFiles, transformedFiles, trees, disk, result>>

NoOptions == [level |-> "", outputFormat |-> "", generateSourceMaps |-> FALSE, excludePatterns |-> <<>>]

NoRatio == [kind |-> "unset", num |-> 0, den |-> 1]

NoResult ==
  [outputFiles |-> <<>>, sourceMapFiles |-> <<>>,
   stats |-> [originalSize |-> 0, compressedSize |-> 0, compressionRatio |-> NoRatio]]

Init ==
  /\ pc = "main"
  /\ opts \in [level : LevelArgs, format : FormatArgs, sourceMaps : BOOLEAN,
               input : SeqsUpTo(InputArgs, MaxInputs)]
  /\ config \in [excludePatterns : ExcludeChoices, generateSourceMaps : BOOLEAN]
  /\ options = NoOptions
  /\ inputPaths = <<>>
  /\ inputFiles = <<>>
  /\ transformedFiles = <<>>
  /\ trees = <<>>
  /\ disk = [p \in {} |-> ""]
  /\ result = NoResult

-----------------------------------------------------------------------------
(* src/cli.ts *)

\* main(), up to the call of compressFiles.
Main ==
  /\ pc = "main"
  /\ options' =
       [level |-> IF InCompressionLevel(opts.level) THEN LevelLookup(opts.level)
                  ELSE CompressionLevel.MINIMAL,
        outputFormat |-> IF opts.format = "multiple" THEN "multiple" ELSE "single",
        generateSourceMaps |-> opts.sourceMaps \/ config.generateSourceMaps,
        excludePatterns |-> config.excludePatterns]
  /\ IF Len(opts.input) = 0
     THEN /\ pc' = "exit1"
          /\ inputPaths' = inputPaths
     ELSE /\ pc' = "resolve"
          /\ inputPaths' = [k \in 1..Len(opts.input) |-> resolve(cwd, opts.input[k])]
  /\ UNCHANGED <<opts, config, inputFiles, transformedFiles, trees, disk, result>>

-----------------------------------------------------------------------------
(* src/compressor.ts *)

\* What one inputPath adds to files in resolveInputFiles.
ResolveOne(inputPath, excludePatterns) ==
  LET stats == FileSystem[inputPath]
  IN  IF stats.type = "dir"
      THEN globSync(inputPath \o "/**/*.ts",
                    IF excludePatterns = <<>> THEN <<>> ELSE excludePatterns[1])
      ELSE IF stats.type = "file" /\ extname(inputPath) = ".ts"
           THEN <<inputPath>>
           ELSE <<>>

RECURSIVE resolveInputFiles(_, _)
resolveInputFiles(paths, excludePatterns) ==
  IF paths = <<>> THEN <<>>
  ELSE ResolveOne(Head(paths), excludePatterns) \o resolveInputFiles(Tail(paths), excludePatterns)

\* compressFiles, line 21: statSync throws on a path that does not exist.
ResolveInputFiles ==
  /\ pc = "resolve"
  /\ IF \E k \in 1..Len(inputPaths) : inputPaths[k] \notin DOMAIN FileSystem
     THEN /\ pc' = "exit1"
          /\ inputFiles' = inputFiles
     ELSE /\ pc' = "compress"
          /\ inputFiles' = resolveInputFiles(inputPaths, options.excludePatterns)
  /\ UNCHANGED <<opts, config, options, inputPaths, transformedFiles, trees, disk, result>>

\* shortenName counting one character too many.
shortenName_offByOne(name) == "_" \o Decimal(Len(name) + 1)

shortenName(name) == "_" \o Decimal(Len(name))

RECURSIVE minimalCompression(_)
minimalCompression(node) ==
  IF isJSDocCommentContainingNode(node) \/ node.kind = "JSDoc" THEN node
  ELSE visitEachChild(node, [k \in 1..Len(node.children) |-> minimalCompression(node.children[k])])

RECURSIVE aggressiveCompression(_)
aggressiveCompression(node) ==
  IF node.kind = "Identifier" /\ node.parent = "VariableDeclaration"
  THEN createIdentifier(shortenName(node.text))
  ELSE visitEachChild(node, [k \in 1..Len(node.children) |-> aggressiveCompression(node.children[k])])

\* The default branch of the visitor in createTransformer.
RECURSIVE passThrough(_)
passThrough(node) == visitEachChild(node, [k \in 1..Len(node.children) |-> passThrough(node.children[k])])

\* The visitor createTransformer builds, applied to the source file.
createTransformer(options_, sourceFile) ==
  CASE options_.level = CompressionLevel.MINIMAL -> minimalCompression(sourceFile)
    [] options_.level = CompressionLevel.AGGRESSIVE -> aggressiveCompression(sourceFile)
    [] OTHER -> passThrough(sourceFile)

\* The rewritten tree, the printed text, and the generator as the rewrite left it.
transformSourceFile(sourceFile, options_, sourceMapGenerator) ==
  The({ [transformed |-> transformed,
         text |-> printFile(transformed, options_.level # CompressionLevel.NONE),
         generator |-> sourceMapGenerator] :
        transformed \in {createTransformer(options_, sourceFile)} })

\* What compressFile returns for the parsed file and the outcome of its transform.
FileResult(filePath, sourceCode, out, options_) ==
  [originalContent |-> sourceCode,
   transformedContent |-> out.text,
   sourceMap |-> IF options_.generateSourceMaps
                 THEN SourceMapToString(out.generator) ELSE undefined,
   originalPath |-> filePath]

\* compressFiles, lines 26-28, and compressFile for the next file of
\* inputFiles, in order.
CompressFile ==
  /\ pc = "compress"
  /\ Len(transformedFiles) < Len(inputFiles)
  /\ LET filePath == inputFiles[Len(transformedFiles) + 1]
         sourceCode == FileSystem[filePath].content
     IN  \E sourceFile \in {createSourceFile(filePath, sourceCode)} :
           \E out \in {transformSourceFile(sourceFile, options,
                                           NewSourceMapGenerator(basename(filePath)))} :
             /\ transformedFiles' =
                  Append(transformedFiles, FileResult(filePath, sourceCode, out, options))
             /\ trees' = Append(trees, [sourceFile |-> sourceFile,
                                        transformed |-> out.transformed,
                                        mappings |-> out.generator.mappings])
  /\ UNCHANGED <<pc, opts, config, options, inputPaths, inputFiles, disk, result>>

\* Divide guarding the divisor the way (b || 1) would.
Divide_guarded(a, b) ==
  [kind |-> "finite", num |-> a, den |-> IF b = 0 THEN 1 ELSE b]

\* JavaScript number division and subtraction from one, on non-negative integers.
Divide(a, b) ==
  IF b # 0 THEN [kind |-> "finite", num |-> a, den |-> b]
  ELSE IF a = 0 THEN [kind |-> "NaN", num |-> 0, den |-> 0]
  ELSE [kind |-> "Infinity", num |-> 0, den |-> 0]

OneMinus(q) ==
  CASE q.kind = "finite" -> [kind |-> "finite", num |-> q.den - q.num, den |-> q.den]
    [] q.kind = "Infinity" -> [kind |-> "-Infinity", num |-> 0, den |-> 0]
    [] OTHER -> q

outputDir == join(cwd, "dist")

\* OutputPath always taking the fallback name.
OutputPath_indexed(file, index) ==
  join(outputDir, basename("compressed_" \o Decimal(index) \o ".ts"))

\* The path generateOutput writes the index-th result to (index counts from 0).
OutputPath(file, index) ==
  join(outputDir,
       basename(IF Truthy(file.originalPath) THEN file.originalPath
                ELSE "compressed_" \o Decimal(index) \o ".ts"))

\* WritesSourceMap skipping a map that holds no mapping.
WritesSourceMap_skipsEmpty(file, options_) ==
  /\ options_.generateSourceMaps
  /\ Truthy(file.sourceMap)
  /\ ~Contains(file.sourceMap, "\"mappings\":\"\"")

\* The condition of line 222.
WritesSourceMap(file, options_) == options_.generateSourceMaps /\ Truthy(file.sourceMap)

\* Every file written: a path with its text, in the order of the writes.
Written(writes, disk0) ==
  LET paths == {writes[k].path : k \in 1..Len(writes)}
      last(p) == CHOOSE k \in 1..Len(writes) :
                   /\ writes[k].path = p
                   /\ \A j \in (k + 1)..Len(writes) : writes[j].path # p
  IN  [p \in paths \cup DOMAIN disk0 |-> IF p \in paths THEN writes[last(p)].text ELSE disk0[p]]

\* The forEach of lines 214-227: the paths pushed and the files written, a
\* later write replacing an earlier one to the same path.
WriteMultiple(files, options_, disk0) ==
  LET outputPath(k) == OutputPath(files[k], k - 1)
      mapped == SelectSeq([k \in 1..Len(files) |-> k],
                          LAMBDA k : WritesSourceMap(files[k], options_))
      writes == Flatten([k \in 1..Len(files) |->
                  <<[path |-> outputPath(k), text |-> files[k].transformedContent]>>
                    \o (IF WritesSourceMap(files[k], options_)
                        THEN <<[path |-> outputPath(k) \o ".map", text |-> files[k].sourceMap]>>
                        ELSE <<>>)])
  IN  [outputFiles |-> [k \in 1..Len(files) |-> outputPath(k)],
       sourceMapFiles |-> [j \in 1..Len(mapped) |-> outputPath(mapped[j]) \o ".map"],
       disk |-> Written(writes, disk0)]

\* The single branch, lines 191-211.
WriteSingle(files, options_, disk0) ==
  LET combinedContent == Join([k \in 1..Len(files) |-> files[k].transformedContent], "\n")
      outputPath == join(outputDir, "compressed.ts")
      sourceMapPath == outputPath \o ".map"
      maps == SelectSeq([k \in 1..Len(files) |-> files[k].sourceMap], Truthy)
  IN  [outputFiles |-> <<outputPath>>,
       sourceMapFiles |-> IF options_.generateSourceMaps THEN <<sourceMapPath>> ELSE <<>>,
       disk |-> Written(<<[path |-> outputPath, text |-> combinedContent]>>
                          \o (IF options_.generateSourceMaps
                              THEN <<[path |-> sourceMapPath, text |-> Join(maps, "\n")]>>
                              ELSE <<>>),
                        disk0)]

generateOutput(files, options_, disk0) ==
  The({ [disk |-> written.disk,
         result |->
           [outputFiles |-> written.outputFiles,
            sourceMapFiles |-> IF options_.generateSourceMaps THEN <<written.sourceMapFiles>>
                               ELSE <<>>,
            stats |->
              [originalSize |->
                 SumLengths([k \in 1..Len(files) |-> files[k].originalContent]),
               compressedSize |->
                 SumLengths([k \in 1..Len(files) |-> files[k].transformedContent]),
               compressionRatio |->
                 OneMinus(Divide(
                   SumLengths([k \in 1..Len(files) |-> files[k].transformedContent]),
                   SumLengths([k \in 1..Len(files) |-> files[k].originalContent])))]]] :
        written \in {IF options_.outputFormat = "single"
                     THEN WriteSingle(files, options_, disk0)
                     ELSE WriteMultiple(files, options_, disk0)} })

\* compressFiles, lines 31-34, and the return to main().
GenerateOutput ==
  /\ pc = "compress"
  /\ Len(transformedFiles) = Len(inputFiles)
  /\ \E out \in {generateOutput(transformedFiles, options, disk)} :
       /\ disk' = out.disk
       /\ result' = out.result
  /\ pc' = "done"
  /\ UNCHANGED <<opts, config, options, inputPaths, inputFiles, transformedFiles, trees>>

Next == Main \/ ResolveInputFiles \/ CompressFile \/ GenerateOutput

Spec == Init /\ [][Next]_vars

-----------------------------------------------------------------------------
(* Properties *)

\* The identifier nodes of a tree, in the order the visitor meets them.
RECURSIVE IdentifiersIn(_)
IdentifiersIn(node) ==
  IF node.kind = "Identifier" THEN <<node>>
  ELSE Flatten([k \in 1..Len(node.children) |-> IdentifiersIn(node.children[k])])

\* Every comment of a parsed file with the kind of the node it leads.
CommentsOf(sourceFile) ==
  LET stmts == sourceFile.children
  IN  Flatten([k \in 1..Len(stmts) |->
                 [j \in 1..Len(stmts[k].comments) |->
                    [kind |-> stmts[k].comments[j].kind, text |-> stmts[k].comments[j].text,
                     on |-> stmts[k].kind]]])
        \o [j \in 1..Len(sourceFile.comments) |->
              [kind |-> sourceFile.comments[j].kind, text |-> sourceFile.comments[j].text,
               on |-> "EndOfFile"]]

DeclarationKinds == {"FunctionDeclaration", "VariableStatement"}

Range(q) == {q[k] : k \in 1..Len(q)}

Compressed == 1..Len(transformedFiles)

IsSubstituted(i, k) == IdentifiersIn(trees[i].transformed)[k].synthesized

Substitutions(i) ==
  {k \in 1..Len(IdentifiersIn(trees[i].sourceFile)) : IsSubstituted(i, k)}

ExcludePatterns == IF options.excludePatterns = <<>> THEN <<>> ELSE options.excludePatterns[1]

\* C1: at level MINIMAL or AGGRESSIVE the printed text of a file holds none
\* of the ordinary comments of the input and still holds every documentation
\* comment attached to a declaration of the input.
C1_CommentsStrippedDocsKept ==
  \A i \in Compressed :
    options.level \in {CompressionLevel.MINIMAL, CompressionLevel.AGGRESSIVE} =>
      \A c \in Range(CommentsOf(trees[i].sourceFile)) :
        /\ c.kind = "Comment" => ~Contains(transformedFiles[i].transformedContent, c.text)
        /\ (c.kind = "JSDoc" /\ c.on \in DeclarationKinds) =>
             Contains(transformedFiles[i].transformedContent, c.text)

\* C2: at level AGGRESSIVE an identifier is replaced by a generated name if
\* and only if it is the direct name of a variable declaration; every other
\* identifier is in the rewritten tree unchanged.
C2_OnlyDeclarationNamesReplaced ==
  \A i \in Compressed :
    options.level = CompressionLevel.AGGRESSIVE =>
      LET before == IdentifiersIn(trees[i].sourceFile)
          after == IdentifiersIn(trees[i].transformed)
      IN  \A k \in 1..Len(before) :
            /\ after[k].synthesized <=>
                 (before[k].parent = "VariableDeclaration" /\ before[k].slot = "name")
            /\ ~after[k].synthesized => after[k] = before[k]

IsHelloAtAggressive(i) ==
  /\ transformedFiles[i].originalContent = HelloText
  /\ options.level = CompressionLevel.AGGRESSIVE

\* C3 as stated: for the content const longVariableName = 'Hello World'; // comment
\* at level AGGRESSIVE the output replaces longVariableName by _17.
C3_ReplacedBy17 ==
  \A i \in Compressed :
    IsHelloAtAggressive(i) =>
      /\ Contains(transformedFiles[i].transformedContent, "_17")
      /\ ~Contains(transformedFiles[i].transformedContent, "longVariableName")

\* C3 as amended: for that content at level AGGRESSIVE the output replaces
\* longVariableName by _16, the underscore followed by the decimal count of
\* the name's 16 characters.
C3_ReplacedBy16 ==
  \A i \in Compressed :
    IsHelloAtAggressive(i) =>
      /\ transformedFiles[i].transformedContent = "const _16 = 'Hello World';\n"
      /\ ~Contains(transformedFiles[i].transformedContent, "longVariableName")

C3_Witness ==
  \E i \in Compressed :
    /\ IsHelloAtAggressive(i)
    /\ IdentifiersIn(trees[i].sourceFile)[1].text = "longVariableName"
    /\ IsSubstituted(i, 1)

\* C4: at level AGGRESSIVE every identifier substitution appends exactly one
\* entry to the file's SourceMapGenerator, so the generator holds as many
\* entries as identifiers were substituted in the file.
C4_OneEntryPerSubstitution ==
  \A i \in Compressed :
    options.level = CompressionLevel.AGGRESSIVE =>
      Len(trees[i].mappings) = Cardinality(Substitutions(i))

\* C5: --level none, minimal and aggressive give the levels NONE, MINIMAL
\* and AGGRESSIVE; only a value that is none of the three gives MINIMAL.
C5_LevelOptionSelectsLevel ==
  pc # "main" =>
    /\ opts.level = "none" => options.level = CompressionLevel.NONE
    /\ opts.level = "minimal" => options.level = CompressionLevel.MINIMAL
    /\ opts.level = "aggressive" => options.level = CompressionLevel.AGGRESSIVE
    /\ opts.level \notin {"none", "minimal", "aggressive"} =>
         options.level = CompressionLevel.MINIMAL

\* C6: for every list of input paths and every set of exclude patterns, no
\* file that resolveInputFiles returns, and no output file, matches an
\* exclude pattern.
C6_NoExcludedFileResolved ==
  pc \in {"compress", "done"} =>
    /\ \A k \in 1..Len(inputFiles) : ~Ignored(inputFiles[k], ExcludePatterns)
    /\ \A k \in 1..Len(result.outputFiles) : ~Ignored(result.outputFiles[k], ExcludePatterns)

\* C7: when the text of an input file is not syntactically valid the batch
\* is aborted: the run does not complete and writes no output or map file.
C7_InvalidSourceAbortsBatch ==
  (\E i \in Compressed : trees[i].sourceFile.parseDiagnostics > 0) =>
    /\ pc # "done"
    /\ DOMAIN disk = {}

\* C8: with generateSourceMaps, sourceMapFiles has exactly one entry for
\* outputFormat single and exactly one entry for each of the N output files
\* for outputFormat multiple, at every level, substitutions or not.
C8_MappingCardinality ==
  (pc = "done" /\ options.generateSourceMaps) =>
    /\ Len(result.sourceMapFiles) = 1
    /\ LET maps == result.sourceMapFiles[1]
       IN  IF options.outputFormat = "single"
           THEN Len(maps) = 1
           ELSE /\ Len(maps) = Len(inputFiles)
                /\ Len(maps) = Len(result.outputFiles)
                /\ \A k \in 1..Len(maps) :
                     /\ maps[k] = result.outputFiles[k] \o ".map"
                     /\ maps[k] \in DOMAIN disk

C8_Witness ==
  /\ pc = "done"
  /\ options.generateSourceMaps
  /\ options.outputFormat = "multiple"
  /\ options.level = CompressionLevel.MINIMAL
  /\ Len(inputFiles) = 2
  /\ \A i \in Compressed : Substitutions(i) = {}
  /\ Len(result.sourceMapFiles[1]) = 2

\* C9: files are compressed one at a time in input order; with outputFormat
\* multiple the number of results and of output files is N and the base name
\* of the i-th output file is the base name of the i-th input file.
C9_OrderPreserved ==
  /\ Len(transformedFiles) <= Len(inputFiles)
  /\ \A i \in Compressed : transformedFiles[i].originalPath = inputFiles[i]
  /\ (pc = "done" /\ options.outputFormat = "multiple") =>
       /\ Len(transformedFiles) = Len(inputFiles)
       /\ Len(result.outputFiles) = Len(inputFiles)
       /\ \A k \in 1..Len(inputFiles) :
            basename(result.outputFiles[k]) = basename(inputFiles[k])

C9_Witness ==
  /\ pc = "done"
  /\ options.outputFormat = "multiple"
  /\ Len(inputFiles) = 2
  /\ inputFiles[1] # inputFiles[2]
  /\ basename(inputFiles[1]) = basename(inputFiles[2])
  /\ Len(result.outputFiles) = 2

====
